---- MODULE Spec2Model ----
(***************************************************************************)
(* Model of qstrader/algo/alpha_model.py: the AlphaModel abstract base     *)
(* class, its constructor and source validation, the name property and    *)
(* the abstract update/forecast pair, as seen by one caller that builds   *)
(* and drives one model instance at a time.                                *)
(***************************************************************************)
EXTENDS Naturals, Sequences, FiniteSets

\* Largest number of entries of a sources container the caller builds.
MaxLen == 2

(***************************************************************************)
(* Python values.  A value carries its runtime type, so that an int 7 and *)
(* a str "7" are different values and isinstance can tell them apart.     *)
(***************************************************************************)
Val(t, v) == [type |-> t, val |-> v]

\* An attribute that has not been assigned on the instance.
Absent == Val("absent", "")

\* The object None (line 67).
None == Val("NoneType", "None")

\* isinstance(value, str), line 80.
IsStr(value) == value.type = "str"

\* Values the caller passes as model_id (no validation is applied to it).
IdValues == {Val("int", "1"), Val("str", "1")}

\* Values the caller assigns to name: text (the empty string too) and not.
NameValues == {Val("str", ""), Val("str", "7"), Val("int", "7"), None}

\* The imported registry of known source names (line 24).
existing_sources == {"a", "b"}

\* Keys the caller may use, registered or not.
SourceNames == existing_sources \cup {"x"}

\* Source parameters, opaque to the class (never read by it).
Params == {"p0"}

\* Items of a container: (source, params) pairs in insertion order.
Items ==
  UNION {[1..n -> SourceNames \X Params] : n \in 0..MaxLen}

DistinctKeys(items) ==
  \A i, j \in 1..Len(items) : i # j => items[i][1] # items[j][1]

\* What the caller may pass as sources_dict: a dict (distinct keys), a list
\* of at most one pair, or an int.
SourcesArgs ==
  {[type |-> "dict", items |-> it] : it \in {x \in Items : DistinctKeys(x)}}
  \cup {[type |-> "list", items |-> it] : it \in {x \in Items : Len(x) <= 1}}
  \cup {[type |-> "int", items |-> <<>>]}

\* No container at all (before any constructor call).
NoSources == [type |-> "absent", items |-> <<>>]

Keys(items) == {items[i][1] : i \in 1..Len(items)}

(***************************************************************************)
(* Exceptions: the classes the module raises or defines, with their       *)
(* base classes (method resolution order).                                 *)
(***************************************************************************)
Mro(exc) ==
  CASE exc = "TypeError" -> {"TypeError", "Exception", "BaseException"}
    [] exc = "ValueError" -> {"ValueError", "Exception", "BaseException"}
    [] exc = "NotImplementedError" ->
         {"NotImplementedError", "RuntimeError", "Exception", "BaseException"}
    [] exc = "AlphaModelException" ->
         {"AlphaModelException", "Exception", "BaseException"}
    [] OTHER -> {}

\* The outcome of a call: the exception raised ("none" when it returns), its
\* message template, the value formatted into the message, and the value
\* returned.
Outcome(op, exc, msg, detail, value) ==
  [op |-> op, exc |-> exc, msg |-> msg, detail |-> detail, value |-> value]

Returned(op, value) == Outcome(op, "none", "", "", value)

VARIABLES
  cls,           \* the abstract methods the instantiated class overrides
  alive,         \* the caller holds a constructed instance
  id,            \* self.id
  sources_dict,  \* self.sources_dict: Absent, or a reference to `sources`
  _name,         \* self._name
  sources,       \* the container object the caller passed to the constructor
  tested,        \* keys tested against existing_sources by the last call
  result,        \* outcome of the last call
  args           \* model_id passed to the constructor, the value last
                 \* assigned to name and the one last accepted

vars == <<cls, alive, id, sources_dict, _name, sources, tested, result, args>>

\* The reference stored in self.sources_dict: the caller's own object.
Ref == Val("ref", "sources")

\* The container self.sources_dict refers to.
sourcesConfig == IF sources_dict = Ref THEN sources ELSE NoSources


(***************************************************************************)
(* AlphaModel._check_source_list (lines 87-94).                           *)
(***************************************************************************)
TypeMsg == "Alpha Model needs to be given a dictionary of sources and their parameters"
SourceMsg == "Source {} does not exist!"

Checked(out, keys) == [out |-> out, tested |-> keys]

\* The loop with line 94 returning nothing.
RECURSIVE check_loop_no_return(_, _, _)
check_loop_no_return(src, i, keys) ==
  IF i > Len(src.items)
  THEN Checked(Returned("init", None), keys)
  ELSE LET source == src.items[i][1] IN
       IF ~(source \in existing_sources)
       THEN Checked(Outcome("init", "ValueError", SourceMsg, source, None),
                    Append(keys, source))
       ELSE check_loop_no_return(src, i + 1, Append(keys, source))

\* The loop with only the first key tested.
check_loop_first_only(src, i, keys) ==
  IF i > Len(src.items)
  THEN Checked(Returned("init", Ref), keys)
  ELSE LET source == src.items[i][1] IN
       IF ~(source \in existing_sources)
       THEN Checked(Outcome("init", "ValueError", SourceMsg, source, None),
                    Append(keys, source))
       ELSE Checked(Returned("init", Ref), Append(keys, source))

\* The loop of lines 91-93 from item i on, `keys` being the keys already
\* tested; line 94 returns the very object it was given.
RECURSIVE check_loop(_, _, _)
check_loop(src, i, keys) ==
  IF i > Len(src.items)
  THEN Checked(Returned("init", Ref), keys)
  ELSE LET source == src.items[i][1] IN
       IF ~(source \in existing_sources)
       THEN Checked(Outcome("init", "ValueError", SourceMsg, source, None),
                    Append(keys, source))
       ELSE check_loop(src, i + 1, Append(keys, source))

\* The validation with the type test made after the keys are tested.
check_source_list_keys_first(src) ==
  LET chk == check_loop(src, 1, <<>>) IN
  IF chk.out.exc # "none" THEN chk
  ELSE IF ~(src.type = "dict")
       THEN Checked(Outcome("init", "TypeError", TypeMsg, "", None), chk.tested)
       ELSE chk

check_source_list(src) ==
  IF ~(src.type = "dict")
  THEN Checked(Outcome("init", "TypeError", TypeMsg, "", None), <<>>)
  ELSE check_loop(src, 1, <<>>)

(***************************************************************************)
(* The name property (lines 69-85).                                        *)
(***************************************************************************)
NotSetMsg == "Name has not been set."
NotStrMsg == "Name has to be a string and not %s"

\* The getter returning whatever _name holds.
name_getter_no_guard(n) == Returned("get_name", n)

\* The getter testing truthiness, as in `if self._name:`.
name_getter_truthy(n) ==
  IF n # None /\ n # Val("str", "")
  THEN Returned("get_name", n)
  ELSE Outcome("get_name", "ValueError", NotSetMsg, "", None)

\* Getter, lines 70-76, on an instance whose _name is n.
name_getter(n) ==
  IF n # None
  THEN Returned("get_name", n)
  ELSE Outcome("get_name", "ValueError", NotSetMsg, "", None)

\* The setter storing the value before it tests its type.
name_setter_store_first(n, value) ==
  IF IsStr(value)
  THEN [out |-> Returned("set_name", None), _name |-> value]
  ELSE [out |-> Outcome("set_name", "ValueError", NotStrMsg, value.type, None),
        _name |-> value]

\* Setter, lines 79-85: the outcome and the _name it leaves behind.
name_setter(n, value) ==
  IF IsStr(value)
  THEN [out |-> Returned("set_name", None), _name |-> value]
  ELSE [out |-> Outcome("set_name", "ValueError", NotStrMsg, value.type, None),
        _name |-> n]

(***************************************************************************)
(* Abstract methods (ABC, lines 23, 30, 96-106).                           *)
(***************************************************************************)
AbstractMsg == "Can't instantiate abstract class"
UpdateMsg == "Should implement update()"
ForecastMsg == "Should implement forecast()"

AllAbstract == {"update", "forecast"}

\* forecast left without its @abstractmethod decorator.
abstractmethods_update_only(overrides) == {"update"} \ overrides

\* The abstract methods a class overriding `overrides` still lacks.
abstractmethods(overrides) == AllAbstract \ overrides

\* Nothing passed yet.
NoArgs == [model_id |-> Absent, value |-> Absent, name |-> Absent]

Init ==
  /\ cls = {}
  /\ alive = FALSE
  /\ id = Absent
  /\ sources_dict = Absent
  /\ _name = Absent
  /\ sources = NoSources
  /\ tested = <<>>
  /\ result = Returned("none", None)
  /\ args = NoArgs

\* Cls(model_id, src) for a class overriding `overrides`: instantiation
\* (refused while abstract methods remain), then __init__, lines 56-67.
Construct(overrides, model_id, src) ==
  LET chk == check_source_list(src) IN
  /\ cls' = overrides
  /\ sources' = src
  /\ args' = [NoArgs EXCEPT !.model_id = model_id]
  /\ IF abstractmethods(overrides) # {}
     THEN /\ result' = Outcome("init", "TypeError", AbstractMsg, "", None)
          /\ tested' = <<>>
          /\ id' = Absent
          /\ sources_dict' = Absent
          /\ _name' = Absent
          /\ alive' = FALSE
     ELSE /\ id' = model_id
          /\ result' = chk.out
          /\ tested' = chk.tested
          /\ IF chk.out.exc = "none"
             THEN /\ sources_dict' = chk.out.value
                  /\ _name' = None
                  /\ alive' = TRUE
             ELSE /\ sources_dict' = Absent
                  /\ _name' = Absent
                  /\ alive' = FALSE

\* model.name
GetName ==
  /\ alive
  /\ result' = name_getter(_name)
  /\ tested' = <<>>
  /\ UNCHANGED <<cls, alive, id, sources_dict, _name, sources, args>>

\* model.name = value
SetName(value) ==
  LET set == name_setter(_name, value) IN
  /\ alive
  /\ _name' = set._name
  /\ result' = set.out
  /\ tested' = <<>>
  /\ args' = [args EXCEPT !.value = value,
                          !.name = IF set.out.exc = "none" THEN value ELSE @]
  /\ UNCHANGED <<cls, alive, id, sources_dict, sources>>

\* model.update(dt) of a concrete class; the base body (lines 97-100) runs
\* only when the override delegates to it.
Update(delegates) ==
  /\ alive
  /\ result' = IF delegates
               THEN Outcome("update", "NotImplementedError", UpdateMsg, "", None)
               ELSE Returned("update", None)
  /\ tested' = <<>>
  /\ UNCHANGED <<cls, alive, id, sources_dict, _name, sources, args>>

\* model.forecast() of a concrete class; base body lines 103-106.
Forecast(delegates) ==
  /\ alive
  /\ result' = IF delegates
               THEN Outcome("forecast", "NotImplementedError", ForecastMsg, "", None)
               ELSE Returned("forecast", None)
  /\ tested' = <<>>
  /\ UNCHANGED <<cls, alive, id, sources_dict, _name, sources, args>>

\* model.id = value: id is a plain instance attribute (line 64).
SetId(value) ==
  /\ alive
  /\ id' = value
  /\ result' = Returned("set_id", None)
  /\ tested' = <<>>
  /\ UNCHANGED <<cls, alive, sources_dict, _name, sources, args>>

\* The dict after d[source] = params.
SetItem(items, source, params) ==
  IF source \in Keys(items)
  THEN [i \in 1..Len(items) |->
          IF items[i][1] = source THEN <<source, params>> ELSE items[i]]
  ELSE Append(items, <<source, params>>)

\* The caller writes d[source] = params into the dict it passed to the
\* constructor; line 94 returned that object and line 65 stored it.
CallerSetItem(source, params) ==
  /\ sources.type = "dict"
  /\ Len(SetItem(sources.items, source, params)) <= MaxLen
  /\ sources' = [sources EXCEPT !.items = SetItem(@, source, params)]
  /\ result' = Returned("setitem", None)
  /\ tested' = <<>>
  /\ UNCHANGED <<cls, alive, id, sources_dict, _name, args>>

Next ==
  \/ \E overrides \in SUBSET AllAbstract, model_id \in IdValues, src \in SourcesArgs :
       Construct(overrides, model_id, src)
  \/ GetName
  \/ \E value \in NameValues : SetName(value)
  \/ \E delegates \in BOOLEAN : Update(delegates)
  \/ \E delegates \in BOOLEAN : Forecast(delegates)
  \/ \E value \in IdValues : SetId(value)
  \/ \E source \in SourceNames, params \in Params : CallerSetItem(source, params)

Spec == Init /\ [][Next]_vars


(***************************************************************************)
(* Properties.                                                             *)
(***************************************************************************)
\* The last call was the construction of a class that overrides both
\* abstract methods.
ConcreteInit == result.op = "init" /\ cls = AllAbstract

\* C1: constructing a concrete model with id i and a dict whose keys are all
\* registered (the empty dict too) succeeds; the model's sources_dict then
\* has exactly the items of that dict and its id is i.
C1_ValidMappingAccepted ==
  (ConcreteInit /\ sources.type = "dict" /\ Keys(sources.items) \subseteq existing_sources)
    => /\ result.exc = "none"
       /\ alive
       /\ sourcesConfig = sources
       /\ id = args.model_id

C1_Witness ==
  /\ ConcreteInit
  /\ alive
  /\ sourcesConfig.type = "dict"
  /\ Keys(sourcesConfig.items) = existing_sources
  /\ id = Val("str", "1")

\* C2: constructing a concrete model with a dict holding a key that is not
\* registered raises the unknown-source ValueError naming a key of the dict
\* that is not registered, and the caller gets no instance.
C2_UnknownSourceRejected ==
  (ConcreteInit /\ sources.type = "dict" /\ ~(Keys(sources.items) \subseteq existing_sources))
    => /\ result.exc = "ValueError"
       /\ result.msg = SourceMsg
       /\ result.detail \in Keys(sources.items) \ existing_sources
       /\ ~alive
       /\ sources_dict = Absent

C2_Witness ==
  /\ ConcreteInit
  /\ sources.type = "dict"
  /\ Len(sources.items) >= 2
  /\ sources.items[1][1] \in existing_sources
  /\ result.exc = "ValueError"
  /\ result.detail = "x"
  /\ ~alive

\* C3: constructing a concrete model with anything that is not a dict raises
\* the TypeError, and no key has been tested against the registry when it
\* does.
C3_NonMappingRejected ==
  (ConcreteInit /\ sources.type # "dict")
    => /\ result.exc = "TypeError"
       /\ result.msg = TypeMsg
       /\ tested = <<>>
       /\ ~alive

C3_Witness ==
  /\ ConcreteInit
  /\ sources.type = "list"
  /\ Keys(sources.items) # {}
  /\ Keys(sources.items) \subseteq existing_sources
  /\ result.exc = "TypeError"
  /\ result.msg = TypeMsg

\* The four contract violations, by their messages.
ContractViolation ==
  /\ result.exc # "none"
  /\ result.msg \in {TypeMsg, SourceMsg, NotSetMsg, NotStrMsg}

\* C4: every one of the four contract violations is an instance of the
\* module's own exception class, AlphaModelException.
C4_ViolationsShareBase ==
  ContractViolation => "AlphaModelException" \in Mro(result.exc)

\* C5: reading name while no assignment has succeeded raises the
\* name-not-set ValueError, and a read that raises changes nothing of the
\* model.
C5_ReadBeforeSetFails ==
  /\ [](alive /\ result.op = "get_name" /\ args.name = Absent
          => result.exc = "ValueError" /\ result.msg = NotSetMsg)
  /\ [][(result'.op = "get_name" /\ result'.exc # "none")
          => UNCHANGED <<cls, alive, id, sources_dict, _name, sources>>]_vars

C5_Witness ==
  /\ alive
  /\ result.op = "get_name"
  /\ result.exc = "ValueError"
  /\ args.name = Absent
  /\ args.value # Absent

\* C6: assigning a str (the empty one too) to name succeeds, and a read of
\* name returns the value of the most recent assignment that succeeded.
C6_ReadReturnsLastSet ==
  /\ (result.op = "set_name" /\ IsStr(args.value))
       => result.exc = "none" /\ args.name = args.value
  /\ (alive /\ result.op = "get_name" /\ args.name # Absent)
       => result.exc = "none" /\ result.value = args.name

C6_Witness ==
  /\ alive
  /\ result.op = "get_name"
  /\ args.name = Val("str", "")
  /\ args.value = Val("int", "7")
  /\ result.value = Val("str", "")

\* C7: assigning a value that is not a str to name raises the
\* name-type ValueError and leaves _name as it was; the _name of a model is
\* always None or a str.
C7_BadNameRejected ==
  /\ [](alive => (_name = None \/ IsStr(_name)))
  /\ []((result.op = "set_name" /\ ~IsStr(args.value))
          => /\ result.exc = "ValueError"
             /\ result.msg = NotStrMsg
             /\ result.detail = args.value.type)
  /\ [][(result'.op = "set_name" /\ result'.exc # "none")
          => _name' = _name /\ args'.name = args.name]_vars

C7_Witness ==
  /\ alive
  /\ result.op = "set_name"
  /\ result.exc = "ValueError"
  /\ args.value = None
  /\ _name = Val("str", "7")

\* C8: every key of a model's sources_dict is registered, whatever has been
\* done with the model or with the dict passed to its constructor.
C8_SourcesStayRegistered ==
  alive => Keys(sourcesConfig.items) \subseteq existing_sources

\* C9: the id of a model is the value passed to its constructor, whatever
\* has been done with the model.
C9_IdNeverChanges ==
  alive => id = args.model_id

\* C10: a class lacking update or forecast cannot be instantiated: the
\* attempt fails before any validation or field assignment, so every model
\* instance has both.
C10_AbstractNotInstantiable ==
  /\ alive => cls = AllAbstract
  /\ (result.op = "init" /\ cls # AllAbstract)
       => /\ result.exc = "TypeError"
          /\ result.msg = AbstractMsg
          /\ ~alive
          /\ tested = <<>>
          /\ id = Absent
          /\ sources_dict = Absent
          /\ _name = Absent

C10_Witness ==
  /\ result.op = "init"
  /\ cls = {"update"}
  /\ sources.type = "dict"
  /\ Keys(sources.items) = existing_sources
  /\ result.exc = "TypeError"
  /\ ~alive

====
